---- MODULE Spec2Model ----
(***************************************************************************)
(* A model of build.py: the build script that locates protoc, compiles     *)
(* every mlens_proto/*.proto for python (one invocation per file) and for  *)
(* js (one batched invocation), writes mlens_proto/__init__.py, runs       *)
(* stubgen, and writes mlens_proto/index.js.                               *)
(*                                                                         *)
(* The filesystem, the environment and the external tools are the script's *)
(* surroundings.  A tool is deterministic: what it does on an input is     *)
(* fixed, but unknown until the script first runs it on that input; the    *)
(* outcome is then remembered (protocPy, protocJs, importable, stubgenRun, *)
(* indexWritable) so that a later run of the script meets the same tool.   *)
(***************************************************************************)
EXTENDS Integers, Sequences, FiniteSets, TLC

\* Bounds of the model.
MaxRuns == 2      \* runs of main() in one behaviour
MaxLines == 2     \* lines of a *_pb.js file handed to generate_index_js alone

\* Schema files a.proto, b.proto, ... are 1, 2, ...: filename order is <.
\* Symbol names are 1, 2, ...: alphabetical order is <.
Files == {1, 2}
Syms == {1, 2}

VARIABLES
    pc,             \* where the script is: "idle", a step of main(), "exited"
    exitStatus,     \* the process exit status, once pc = "exited"
    failure,        \* which sys.exit(1) ended the run, "none" otherwise
    runs,           \* runs of main() started so far
    output_dir,     \* main: output_dir
    workdir,        \* the process working directory (os.getcwd())
    PROTOC,         \* environment: PROTOC unset / names a missing path / exists
    pathProtoc,     \* shutil.which("protoc"): "none" or "found"
    pathStubgen,    \* shutil.which("stubgen"): "none" or "found"
    dirOrder,       \* the order in which the directory is enumerated
    indexWritable,  \* whether open(index.js, "w") succeeds
    protocPy,       \* file -> what protoc --python_out does on it
    protocJs,       \* argument list -> whether protoc --js_out succeeds on it
    importable,     \* file -> whether importing its *_pb2 module succeeds
    stubgenRun,     \* whether stubgen exits zero
    schemas,        \* the *.proto files on disk
    pyMods,         \* the *_pb2.py files on disk: file -> classes it defines
    jsMods,         \* the *_pb.js files on disk: file -> its lines
    initFile,       \* mlens_proto/__init__.py
    indexFile,      \* mlens_proto/index.js
    stubFiles,      \* whether stubgen has written its .pyi files
    protoc,         \* compile_protos: protoc
    proto_files,    \* compile_protos / generate_index_js: proto_files
    protoc_cmd_npm, \* compile_protos: the file arguments of protoc_cmd_npm
    i,              \* position of the running for loop in its list
    listing,        \* generate_init: the *_pb2.py entries of os.listdir
    proto_classes,  \* generate_index_js: proto_classes
    cwd,            \* generate_stubs: cwd
    trace,          \* history: the stages entered in this run, in order
    log,            \* history: tool invocations and imports of this run
    start,          \* history: the filesystem when this run started
    prev            \* history: how the previous run ended

vars == << pc, exitStatus, failure, runs, output_dir, workdir, PROTOC,
           pathProtoc, pathStubgen, dirOrder, indexWritable, protocPy,
           protocJs, importable, stubgenRun, schemas, pyMods, jsMods,
           initFile, indexFile, stubFiles, protoc, proto_files,
           protoc_cmd_npm, i, listing, proto_classes, cwd, trace, log,
           start, prev >>

envVars == << PROTOC, pathProtoc, pathStubgen, dirOrder, indexWritable >>
toolVars == << protocPy, protocJs, importable, stubgenRun >>
fsVars == << schemas, pyMods, jsMods, initFile, indexFile, stubFiles >>
localVars == << protoc, proto_files, protoc_cmd_npm, i, listing,
                proto_classes, cwd >>

----------------------------------------------------------------------------
\* Sequences and sets.

Range(s) == { s[k] : k \in DOMAIN s }

Last(s) == s[Len(s)]

IsPrefix(s, t) == Len(s) <= Len(t) /\ SubSeq(t, 1, Len(s)) = s

Perms(S) == { p \in [1..Cardinality(S) -> S] : Range(p) = S }

SeqsUpTo(S, n) == UNION { [1..k -> S] : k \in 0..n }

PartialFns(D, R) == UNION { [X -> R] : X \in SUBSET D }

Min(S) == CHOOSE x \in S : \A y \in S : x <= y

\* sorted(set(...)) over names: the elements of S in ascending order.
RECURSIVE sorted(_)
sorted(S) == IF S = {} THEN << >> ELSE << Min(S) >> \o sorted(S \ {Min(S)})

\* Occurrences of x in the sequence s.
Count(s, x) == Cardinality({ k \in DOMAIN s : s[k] = x })

----------------------------------------------------------------------------
\* Paths and the filesystem.

\* A path is absolute or relative to the working directory; "." is Dot.
Dot == [abs |-> FALSE, parts |-> << >>]

\* os.chdir(path) from working directory wd.
chdir(wd, path) == IF path.abs THEN path.parts ELSE wd \o path.parts

\* glob.glob / os.listdir: the entries present, in the directory's order.
glob(order, present) == SelectSeq(order, LAMBDA f : f \in present)

NoFile == [exists |-> FALSE, lines |-> << >>]

\* open(path, "w"): the file exists and is empty.
open_w_append(file) == [exists |-> TRUE, lines |-> file.lines]
open_w(file) == [exists |-> TRUE, lines |-> << >>]

FS == [schemas |-> schemas, pyMods |-> pyMods, jsMods |-> jsMods,
       initFile |-> initFile, indexFile |-> indexFile,
       stubFiles |-> stubFiles]

\* A line of a *_pb.js file: either it starts with
\* goog.exportSymbol('proto.mlens.v1. and names the dotted path that follows,
\* or it is some other line.
OtherLine == [export |-> FALSE, path |-> << >>]
ExportLine(path) == [export |-> TRUE, path |-> path]

\* What protoc --js_out writes for a schema defining the messages M.
JsOf(M) == << OtherLine >> \o [k \in 1..Cardinality(M) |->
                                 ExportLine(<< sorted(M)[k] >>)]

\* The lines a *_pb.js file may hold when generate_index_js is run on an
\* arbitrary directory: other lines, top-level messages, nested messages.
LineKinds == {OtherLine} \cup { ExportLine(<< s >>) : s \in Syms }
                         \cup { ExportLine(<< Min(Syms), s >>) : s \in Syms }

JsContents == SeqsUpTo(LineKinds, MaxLines)

----------------------------------------------------------------------------
\* The stages of main(), and the sys.exit(1) each can end in.

StageOrder == << "Locate", "Compile", "InitA", "Stubs", "InitB" >>

StageOf(why) ==
    CASE why = "protoc_not_found" -> "Locate"
      [] why \in {"compile_py", "compile_js"} -> "Compile"
      [] why = "generate_init" -> "InitA"
      [] why \in {"stubgen_not_found", "generate_stubs"} -> "Stubs"
      [] why = "generate_index_js" -> "InitB"
      [] OTHER -> "none"

\* sys.exit(code)
sys_exit(code, why) ==
    /\ pc' = "exited"
    /\ exitStatus' = code
    /\ failure' = why

Call(op, args, ok) == [op |-> op, args |-> args, ok |-> ok]

\* A value the surroundings fix: known once read, the same ever after.
Read(memo, choices) == IF memo = "unread" THEN choices ELSE {memo}

----------------------------------------------------------------------------
\* main(), lines 174-181.  output_dir is "." and exists, so nothing is made.

\* How the run that has just ended went.
LastRun == [ran |-> TRUE, schemas |-> start.schemas,
            exitStatus |-> exitStatus, initFile |-> initFile,
            indexFile |-> indexFile]

main ==
    /\ pc \in {"idle", "exited"}
    /\ runs < MaxRuns
    /\ runs' = runs + 1
    /\ output_dir' = Dot
    /\ pc' = "find_protoc"
    /\ exitStatus' = 0
    /\ failure' = "none"
    /\ protoc' = "none"
    /\ proto_files' = << >>
    /\ protoc_cmd_npm' = << >>
    /\ i' = 1
    /\ listing' = << >>
    /\ proto_classes' = << >>
    /\ cwd' = workdir
    /\ trace' = << >>
    /\ log' = << >>
    /\ start' = FS
    /\ prev' = IF pc = "exited" THEN LastRun ELSE prev
    /\ UNCHANGED << workdir, envVars, toolVars, fsVars >>

\* Between runs a schema file may be removed from the input directory; what
\* stubgen then does on the package is open again.  The run that had ended
\* is then history.
RemoveSchema ==
    /\ pc \in {"idle", "exited"}
    /\ runs < MaxRuns
    /\ \E f \in schemas : schemas' = schemas \ {f}
    /\ stubgenRun' = "unread"
    /\ pc' = "idle"
    /\ prev' = IF pc = "exited" THEN LastRun ELSE prev
    /\ trace' = << >>
    /\ log' = << >>
    /\ UNCHANGED << exitStatus, failure, runs, output_dir, workdir,
                    envVars, protocPy, protocJs, importable, pyMods, jsMods,
                    initFile, indexFile, stubFiles, localVars, start >>

----------------------------------------------------------------------------
\* find_protoc(), lines 10-23.

\* Lines 12-15: the override if it is set and exists, else the search path.
locate(env, which) ==
    IF env = "exists" THEN "env"
    ELSE IF which = "found" THEN "path" ELSE "none"

\* Line 17: if protoc is None.
protoc_is_None_never(p) == FALSE
protoc_is_None(p) == p = "none"

find_protoc ==
    /\ pc = "find_protoc"
    /\ trace' = Append(trace, "Locate")
    /\ \E env \in Read(PROTOC, {"unset", "missing", "exists"}) :
         /\ PROTOC' = env
         /\ \E which \in (IF env = "exists" THEN {pathProtoc}
                          ELSE Read(pathProtoc, {"none", "found"})) :
              /\ pathProtoc' = which
              /\ protoc' = locate(env, which)
              /\ log' = Append(log, Call("locate", << >>,
                                         locate(env, which) # "none"))
              /\ IF protoc_is_None(locate(env, which))
                 THEN sys_exit(1, "protoc_not_found")
                 ELSE /\ pc' = "compile_glob"
                      /\ UNCHANGED << exitStatus, failure >>
    /\ UNCHANGED << runs, output_dir, workdir, pathStubgen, dirOrder,
                    indexWritable, toolVars, fsVars, proto_files,
                    protoc_cmd_npm, i, listing, proto_classes, cwd, start,
                    prev >>

----------------------------------------------------------------------------
\* compile_protos(), lines 26-67.

\* Line 30: proto_files = glob.glob(".../*.proto"); lines 34-38.
compile_protos_glob ==
    /\ pc = "compile_glob"
    /\ trace' = Append(trace, "Compile")
    /\ proto_files' = glob(dirOrder.proto, schemas)
    /\ protoc_cmd_npm' = << >>
    /\ i' = 1
    /\ pc' = "compile_py"
    /\ UNCHANGED << exitStatus, failure, runs, output_dir, workdir, envVars,
                    toolVars, fsVars, protoc, listing, proto_classes, cwd,
                    log, start, prev >>

\* Line 43: protoc_cmd_npm.append(proto_file).
npm_append_last_only(cmd, f) == << f >>
npm_append(cmd, f) == Append(cmd, f)

\* Lines 55-57: a CalledProcessError ends the run.
py_error_exits_never(ok) == FALSE
py_error_exits(ok) == ~ok

\* What protoc may do on one schema file: fail, or write a module defining
\* some messages.
PyOutcomes == {[ok |-> FALSE, msgs |-> {}]}
                 \cup { [ok |-> TRUE, msgs |-> M] : M \in SUBSET Syms }

\* Lines 42-57: one iteration of the for loop.
compile_protos_py ==
    /\ pc = "compile_py"
    /\ i <= Len(proto_files)
    /\ LET f == proto_files[i] IN
       /\ protoc_cmd_npm' = npm_append(protoc_cmd_npm, f)
       /\ \E out \in (IF f \in DOMAIN protocPy THEN {protocPy[f]}
                      ELSE PyOutcomes) :
            /\ protocPy' = (f :> out) @@ protocPy
            /\ log' = Append(log, Call("py", << f >>, out.ok))
            /\ IF py_error_exits(out.ok)
               THEN /\ sys_exit(1, "compile_py")
                    /\ UNCHANGED << i, pyMods >>
               ELSE /\ pyMods' = IF out.ok THEN (f :> out.msgs) @@ pyMods
                                 ELSE pyMods
                    /\ i' = i + 1
                    /\ UNCHANGED << pc, exitStatus, failure >>
    /\ UNCHANGED << runs, output_dir, workdir, envVars, protocJs, importable,
                    stubgenRun, schemas, jsMods, initFile, indexFile,
                    stubFiles, protoc, proto_files, listing, proto_classes,
                    cwd, trace, start, prev >>

\* Lines 59-67: the one batched invocation for js.
compile_protos_js ==
    /\ pc = "compile_py"
    /\ i > Len(proto_files)
    /\ \E ok \in (IF protoc_cmd_npm \in DOMAIN protocJs
                  THEN {protocJs[protoc_cmd_npm]} ELSE BOOLEAN) :
         /\ protocJs' = (protoc_cmd_npm :> ok) @@ protocJs
         /\ log' = Append(log, Call("js", protoc_cmd_npm, ok))
         /\ IF ok
            THEN /\ jsMods' = [f \in Range(protoc_cmd_npm) \cup DOMAIN jsMods
                                 |-> IF f \in Range(protoc_cmd_npm)
                                     THEN JsOf(protocPy[f].msgs)
                                     ELSE jsMods[f]]
                 /\ pc' = "init_open"
                 /\ UNCHANGED << exitStatus, failure >>
            ELSE /\ sys_exit(1, "compile_js")
                 /\ UNCHANGED jsMods
    /\ UNCHANGED << runs, output_dir, workdir, envVars, protocPy, importable,
                    stubgenRun, schemas, pyMods, initFile, indexFile,
                    stubFiles, localVars, trace, start, prev >>

----------------------------------------------------------------------------
\* generate_init(), lines 70-91.

\* Lines 80-86: one "from .module import cls" line for each class the module
\* defines, in the order of inspect.getmembers (by name).
import_lines(f, classes) ==
    [k \in 1..Cardinality(classes) |-> [module |-> f, cls |-> sorted(classes)[k]]]

\* Lines 75-76: open __init__.py for writing and list the directory.
generate_init_open ==
    /\ pc = "init_open"
    /\ trace' = Append(trace, "InitA")
    /\ initFile' = open_w(initFile)
    /\ listing' = glob(dirOrder.py, DOMAIN pyMods)
    /\ i' = 1
    /\ pc' = "init_module"
    /\ UNCHANGED << exitStatus, failure, runs, output_dir, workdir, envVars,
                    toolVars, schemas, pyMods, jsMods, indexFile, stubFiles,
                    protoc, proto_files, protoc_cmd_npm, proto_classes, cwd,
                    log, start, prev >>

\* Lines 76-89: one iteration of the for loop.  An exception leaves the with
\* block, which closes the file with what was written, and exits.
generate_init_module ==
    /\ pc = "init_module"
    /\ i <= Len(listing)
    /\ LET f == listing[i] IN
       \E ok \in (IF f \in DOMAIN importable THEN {importable[f]}
                  ELSE BOOLEAN) :
         /\ importable' = (f :> ok) @@ importable
         /\ log' = Append(log, Call("import", << f >>, ok))
         /\ IF ok
            THEN /\ initFile' = [initFile EXCEPT
                                   !.lines = @ \o import_lines(f, pyMods[f])]
                 /\ i' = i + 1
                 /\ UNCHANGED << pc, exitStatus, failure >>
            ELSE /\ sys_exit(1, "generate_init")
                 /\ UNCHANGED << initFile, i >>
    /\ UNCHANGED << runs, output_dir, workdir, envVars, protocPy, protocJs,
                    stubgenRun, schemas, pyMods, jsMods, indexFile, stubFiles,
                    protoc, proto_files, protoc_cmd_npm, listing,
                    proto_classes, cwd, trace, start, prev >>

\* The loop is over: the file is closed, lines 90-91 run, the function returns.
generate_init_close ==
    /\ pc = "init_module"
    /\ i > Len(listing)
    /\ pc' = "stubs_which"
    /\ UNCHANGED << exitStatus, failure, runs, output_dir, workdir, envVars,
                    toolVars, fsVars, localVars, trace, log, start, prev >>

----------------------------------------------------------------------------
\* generate_stubs(), lines 148-171.

\* Lines 168-170: a CalledProcessError ends the run.
stubgen_error_exits_never(ok) == FALSE
stubgen_error_exits(ok) == ~ok

\* Lines 150-153.
generate_stubs_which ==
    /\ pc = "stubs_which"
    /\ trace' = Append(trace, "Stubs")
    /\ \E which \in Read(pathStubgen, {"none", "found"}) :
         /\ pathStubgen' = which
         /\ log' = Append(log, Call("which_stubgen", << >>, which = "found"))
         /\ IF which = "none"
            THEN sys_exit(1, "stubgen_not_found")
            ELSE /\ pc' = "stubs_chdir"
                 /\ UNCHANGED << exitStatus, failure >>
    /\ UNCHANGED << runs, output_dir, workdir, PROTOC, pathProtoc, dirOrder,
                    indexWritable, toolVars, fsVars, localVars, start, prev >>

\* Lines 154-155.
generate_stubs_chdir ==
    /\ pc = "stubs_chdir"
    /\ cwd' = workdir
    /\ workdir' = chdir(workdir, output_dir)
    /\ pc' = "stubs_run"
    /\ UNCHANGED << exitStatus, failure, runs, output_dir, envVars, toolVars,
                    fsVars, protoc, proto_files, protoc_cmd_npm, i, listing,
                    proto_classes, trace, log, start, prev >>

\* Lines 156-170.
generate_stubs_run ==
    /\ pc = "stubs_run"
    /\ \E out \in Read(stubgenRun, {"ok", "fail"}) :
         /\ stubgenRun' = out
         /\ log' = Append(log, Call("stubgen", << >>, out = "ok"))
         /\ IF stubgen_error_exits(out = "ok")
            THEN /\ sys_exit(1, "generate_stubs")
                 /\ UNCHANGED stubFiles
            ELSE /\ stubFiles' = (stubFiles \/ out = "ok")
                 /\ pc' = "stubs_restore"
                 /\ UNCHANGED << exitStatus, failure >>
    /\ UNCHANGED << runs, output_dir, workdir, envVars, protocPy, protocJs,
                    importable, schemas, pyMods, jsMods, initFile, indexFile,
                    localVars, trace, start, prev >>

\* Line 171.
generate_stubs_restore ==
    /\ pc = "stubs_restore"
    /\ workdir' = cwd
    /\ pc' = "index_glob"
    /\ UNCHANGED << exitStatus, failure, runs, output_dir, envVars, toolVars,
                    fsVars, localVars, trace, log, start, prev >>

----------------------------------------------------------------------------
\* generate_index_js(), lines 94-145.

NoIndex == [exists |-> FALSE, requires |-> << >>, exports |-> << >>]

\* Line 110: line.startswith("goog.exportSymbol('proto.mlens.v1.").
startswith_export(line) == line.export

\* Line 111: line.split("'")[1].split(".")[-1], the last dotted component.
class_name(line) == Last(line.path)

\* Lines 108-112: the (class_name, module_name) pairs of one file, in line
\* order.
scan(lines, mod) ==
    LET hits == SelectSeq(lines, startswith_export)
    IN  [k \in 1..Len(hits) |-> [cls |-> class_name(hits[k]), mod |-> mod]]

\* Lines 131-136: the first occurrence of each name, in order.
unique_keep_all(names) == names
RECURSIVE unique(_)
unique(names) ==
    IF names = << >> THEN << >>
    ELSE LET seen == unique(SubSeq(names, 1, Len(names) - 1))
             c == Last(names)
         IN  IF c \in Range(seen) THEN seen ELSE Append(seen, c)

\* Line 123: sorted(set(classes)).
class_list_as_found(classes) == classes
class_list(classes) == sorted(Range(classes))

\* Lines 115-117: the dict modules, as its items in insertion order.
modules(pcs) ==
    LET keys == unique([k \in 1..Len(pcs) |-> pcs[k].mod])
        of(m) == SelectSeq(pcs, LAMBDA p : p.mod = m)
    IN  [k \in 1..Len(keys) |->
           [module |-> keys[k],
            classes |-> [j \in 1..Len(of(keys[k])) |-> of(keys[k])[j].cls]]]

\* Lines 122-124: one require statement per item of modules.
requires(pcs) ==
    [k \in 1..Len(modules(pcs)) |->
       [module |-> modules(pcs)[k].module,
        classes |-> class_list(modules(pcs)[k].classes)]]

\* Lines 129-139: the names of module.exports.
exports(pcs) == unique([k \in 1..Len(pcs) |-> pcs[k].cls])

\* Lines 98-99.
generate_index_js_glob ==
    /\ pc = "index_glob"
    /\ trace' = Append(trace, "InitB")
    /\ proto_classes' = << >>
    /\ proto_files' = glob(dirOrder.js, DOMAIN jsMods)
    /\ i' = 1
    /\ pc' = "index_scan"
    /\ UNCHANGED << exitStatus, failure, runs, output_dir, workdir, envVars,
                    toolVars, fsVars, protoc, protoc_cmd_npm, listing, cwd,
                    log, start, prev >>

\* Lines 101-112: one iteration of the for loop.
generate_index_js_scan ==
    /\ pc = "index_scan"
    /\ i <= Len(proto_files)
    /\ proto_classes' =
          proto_classes \o scan(jsMods[proto_files[i]], proto_files[i])
    /\ i' = i + 1
    /\ UNCHANGED << pc, exitStatus, failure, runs, output_dir, workdir,
                    envVars, toolVars, fsVars, protoc, proto_files,
                    protoc_cmd_npm, listing, cwd, trace, log, start, prev >>

\* Lines 114-145: write index.js, or exit on the exception; then main()
\* returns and the process ends with status 0.
generate_index_js_write ==
    /\ pc = "index_scan"
    /\ i > Len(proto_files)
    /\ \E w \in Read(indexWritable, {"yes", "no"}) :
         /\ indexWritable' = w
         /\ log' = Append(log, Call("write_index", << >>, w = "yes"))
         /\ IF w = "yes"
            THEN /\ indexFile' = [exists |-> TRUE,
                                  requires |-> requires(proto_classes),
                                  exports |-> exports(proto_classes)]
                 /\ sys_exit(0, "none")
            ELSE /\ sys_exit(1, "generate_index_js")
                 /\ UNCHANGED indexFile
    /\ UNCHANGED << runs, output_dir, workdir, PROTOC, pathProtoc,
                    pathStubgen, dirOrder, toolVars, schemas, pyMods, jsMods,
                    initFile, stubFiles, localVars, trace, start, prev >>

----------------------------------------------------------------------------
\* Specifications.

NoRun == [ran |-> FALSE, schemas |-> {}, exitStatus |-> 0,
          initFile |-> NoFile, indexFile |-> NoIndex]

Orders == [proto : Perms(Files), py : Perms(Files), js : Perms(Files)]

\* What holds of every variable before anything has run.
Fresh ==
    /\ exitStatus = 0
    /\ failure = "none"
    /\ PROTOC = "unread"
    /\ pathProtoc = "unread"
    /\ pathStubgen = "unread"
    /\ indexWritable = "unread"
    /\ protocPy = << >>
    /\ protocJs = << >>
    /\ importable = << >>
    /\ stubgenRun = "unread"
    /\ pyMods = << >>
    /\ initFile = NoFile
    /\ indexFile = NoIndex
    /\ stubFiles = FALSE
    /\ protoc = "none"
    /\ proto_files = << >>
    /\ protoc_cmd_npm = << >>
    /\ i = 1
    /\ listing = << >>
    /\ proto_classes = << >>
    /\ trace = << >>
    /\ log = << >>
    /\ prev = NoRun

\* The script is run, again and again, in a source tree holding the schema
\* files and nothing generated yet.
Init ==
    /\ Fresh
    /\ pc = "idle"
    /\ runs = 0
    /\ output_dir = Dot
    /\ workdir = << "repo" >>
    /\ cwd = << "repo" >>
    /\ dirOrder \in Orders
    /\ schemas = Files
    /\ jsMods = << >>
    /\ start = FS

Next ==
    \/ main
    \/ RemoveSchema
    \/ find_protoc
    \/ compile_protos_glob
    \/ compile_protos_py
    \/ compile_protos_js
    \/ generate_init_open
    \/ generate_init_module
    \/ generate_init_close
    \/ generate_stubs_which
    \/ generate_stubs_chdir
    \/ generate_stubs_run
    \/ generate_stubs_restore
    \/ generate_index_js_glob
    \/ generate_index_js_scan
    \/ generate_index_js_write

Spec == Init /\ [][Next]_vars

\* generate_index_js(".") alone, on a directory holding any *_pb.js files.
InitIndex ==
    /\ Fresh
    /\ pc = "index_glob"
    /\ runs = 1
    /\ output_dir = Dot
    /\ workdir = << "repo" >>
    /\ cwd = << "repo" >>
    /\ dirOrder \in Orders
    /\ dirOrder.proto = dirOrder.js
    /\ dirOrder.py = dirOrder.js
    /\ schemas = {}
    /\ jsMods \in PartialFns(Files, JsContents)
    /\ start = FS

NextIndex ==
    \/ generate_index_js_glob
    \/ generate_index_js_scan
    \/ generate_index_js_write

SpecIndex == InitIndex /\ [][NextIndex]_vars

\* generate_stubs(output_dir) alone, for any output directory and from any
\* working directory.
WorkDirs == { << "repo" >>, << "repo", "ci" >>, << "home" >>, << "srv" >> }

OutputDirs == { Dot,
                [abs |-> FALSE, parts |-> << "out" >>],
                [abs |-> FALSE, parts |-> << "out", "gen" >>],
                [abs |-> TRUE, parts |-> << "srv" >>],
                [abs |-> TRUE, parts |-> << "repo" >>] }

InitStubs ==
    /\ Fresh
    /\ pc = "stubs_which"
    /\ runs = 1
    /\ output_dir \in OutputDirs
    /\ workdir \in WorkDirs
    /\ cwd = workdir
    /\ dirOrder \in Orders
    /\ dirOrder.proto = dirOrder.js
    /\ dirOrder.py = dirOrder.js
    /\ schemas = {}
    /\ jsMods = << >>
    /\ start = FS

NextStubs ==
    \/ generate_stubs_which
    \/ generate_stubs_chdir
    \/ generate_stubs_run
    \/ generate_stubs_restore

SpecStubs == InitStubs /\ [][NextStubs]_vars

----------------------------------------------------------------------------
\* What the properties below speak of.

\* Positions of the log holding an invocation of kind op.
Calls(op) == { k \in DOMAIN log : log[k].op = op }

Failed == { k \in DOMAIN log : ~log[k].ok }

Entered(stage) == stage \in Range(trace)

\* The stage an entry of the log belongs to.
StageOfOp(op) ==
    CASE op = "locate" -> "Locate"
      [] op \in {"py", "js"} -> "Compile"
      [] op = "import" -> "InitA"
      [] op \in {"which_stubgen", "stubgen"} -> "Stubs"
      [] OTHER -> "InitB"

\* The stage has done all of its work, successfully.
Completed(stage) ==
    CASE stage = "Locate" -> \E k \in Calls("locate") : log[k].ok
      [] stage = "Compile" -> \E k \in Calls("js") : log[k].ok
      [] stage = "InitA" ->
            /\ Entered("InitA")
            /\ \A f \in DOMAIN pyMods :
                  \E k \in Calls("import") : log[k].args = << f >> /\ log[k].ok
      [] stage = "Stubs" -> \E k \in Calls("stubgen") : log[k].ok
      [] OTHER -> \E k \in Calls("write_index") : log[k].ok

\* The compiler wrote a module for schema file f in this run.
ProducedPy(f) == \E k \in Calls("py") : log[k].args = << f >> /\ log[k].ok

ProducedJs(f) == \E k \in Calls("js") : f \in Range(log[k].args) /\ log[k].ok

\* The names generate_index_js extracts from the module of f.
NamesOf(f) ==
    LET hits == SelectSeq(jsMods[f], LAMBDA l : l.export)
    IN  [k \in 1..Len(hits) |-> hits[k].path[Len(hits[k].path)]]

\* The names of the modules taken in the order files, one after the other.
RECURSIVE NamesAcross(_)
NamesAcross(files) ==
    IF files = << >> THEN << >>
    ELSE NamesOf(Head(files)) \o NamesAcross(Tail(files))

FirstPos(s, x) == Min({ k \in DOMAIN s : s[k] = x })

\* e lists every name of s once, in the order in which s first shows them.
InFirstSeenOrder(e, s) ==
    /\ Range(e) = Range(s)
    /\ \A x \in Range(s) : Count(e, x) = 1
    /\ \A a, b \in DOMAIN e : a < b => FirstPos(s, e[a]) < FirstPos(s, e[b])

\* index.js has been written by this run.
IndexWritten == pc = "exited" /\ Calls("write_index") # {} /\ indexFile.exists
                  /\ \A k \in Calls("write_index") : log[k].ok

\* The require statement for module f lists that module's names, each once,
\* in alphabetical order.
RequireFor(f) ==
    { k \in DOMAIN indexFile.requires : indexFile.requires[k].module = f }

SortedNames(classes, f) ==
    /\ Range(classes) = Range(NamesOf(f))
    /\ \A a, b \in DOMAIN classes : a < b => classes[a] < classes[b]

OneRequireEach(mods) ==
    /\ Len(indexFile.requires) = Cardinality(mods)
    /\ \A f \in mods :
          /\ Cardinality(RequireFor(f)) = 1
          /\ \A k \in RequireFor(f) :
                SortedNames(indexFile.requires[k].classes, f)

----------------------------------------------------------------------------
\* C1: the stages of a run are entered in the order Locate, Compile, InitA,
\* Stubs, InitB, each at most once and only after every earlier stage has
\* completed; whatever fails is the last thing the run does, and it ends the
\* run with status 1 in the stage that failed; a run ends with status 0
\* exactly when all five stages were entered and nothing failed.
C1_StagesInOrder ==
    /\ IsPrefix(trace, StageOrder)
    /\ \A n \in 2..Len(trace) : Completed(trace[n - 1])
    /\ \A k \in Failed :
          /\ k = Len(log)
          /\ pc = "exited"
          /\ exitStatus = 1
          /\ StageOfOp(log[k].op) = Last(trace)
    /\ pc = "exited" =>
          /\ exitStatus \in {0, 1}
          /\ exitStatus = 0 <=>
                (trace = StageOrder /\ Failed = {} /\ Completed("InitB"))

\* C1 happens: a run in which stubgen failed ended in the Stubs stage.
C1_Witness ==
    /\ pc = "exited"
    /\ exitStatus = 1
    /\ trace = << "Locate", "Compile", "InitA", "Stubs" >>
    /\ Calls("stubgen") # {}

\* C2: whenever generate_stubs is left after it changed the working
\* directory, by returning or by the exit on a stubgen failure, the working
\* directory is the one it was called in.
C2_WorkdirRestored ==
    (pc = "index_glob" \/ (pc = "exited" /\ failure = "generate_stubs"))
        => workdir = cwd

\* C3: when PROTOC is unset or names a missing path and protoc is not on the
\* search path, the run ends with status 1, the filesystem is as it was when
\* the run started, and neither the compiler nor stubgen was invoked.
C3_NoCompilerNoEffect ==
    (pc = "exited" /\ PROTOC \in {"unset", "missing"} /\ pathProtoc = "none")
        => /\ exitStatus = 1
           /\ FS = start
           /\ \A k \in DOMAIN log : log[k].op = "locate"

\* C3 happens: a run ended with no compiler to be found.
C3_Witness ==
    /\ pc = "exited"
    /\ PROTOC = "missing"
    /\ pathProtoc = "none"
    /\ trace = << "Locate" >>

\* C4: once the python invocation for the i-th discovered file has failed,
\* the run has ended with status 1, the python invocations made are those
\* for the first i discovered files, no js invocation was made, the modules
\* of the files before the i-th are on disk as the compiler wrote them, and
\* nothing that was on disk when the run started is gone.
C4_PyFailureStops ==
    \A k \in Calls("py") : ~log[k].ok =>
        /\ pc = "exited"
        /\ exitStatus = 1
        /\ log[k].args = << proto_files[i] >>
        /\ Calls("js") = {}
        /\ Cardinality(Calls("py")) = i
        /\ \A j \in 1..i :
              \E n \in Calls("py") : log[n].args = << proto_files[j] >>
        /\ \A j \in 1..(i - 1) :
              /\ proto_files[j] \in DOMAIN pyMods
              /\ pyMods[proto_files[j]] = protocPy[proto_files[j]].msgs
        /\ DOMAIN start.pyMods \subseteq DOMAIN pyMods
        /\ jsMods = start.jsMods
        /\ initFile = start.initFile
        /\ indexFile = start.indexFile

\* C4 happens: the python invocation for the second discovered file failed
\* after the first had written its module.
C4_Witness ==
    /\ pc = "exited"
    /\ failure = "compile_py"
    /\ i = 2
    /\ proto_files[1] \in DOMAIN pyMods

\* C5: a run that got to compile and in which no python invocation failed
\* has made exactly one js invocation, after all python invocations, whose
\* file arguments are the schema files on disk, each once; and it has made
\* exactly one python invocation for each schema file and none for any other.
C5_OneJsBatch ==
    (pc = "exited" /\ Entered("Compile")
       /\ \A k \in Calls("py") : log[k].ok)
        => /\ Cardinality(Calls("js")) = 1
           /\ \A k \in Calls("js") :
                 /\ \A n \in Calls("py") : n < k
                 /\ Range(log[k].args) = schemas
                 /\ Len(log[k].args) = Cardinality(schemas)
           /\ \A f \in schemas :
                 Cardinality({ n \in Calls("py") : log[n].args = << f >> }) = 1
           /\ Cardinality(Calls("py")) = Cardinality(schemas)

\* C5 happens: a run compiled both schema files for python and went on to js.
C5_Witness ==
    /\ pc = "exited"
    /\ schemas = Files
    /\ Calls("js") # {}
    /\ \A k \in Calls("py") : log[k].ok

\* C6: when a run has ended, every class named in the __init__.py it wrote
\* is defined by a *_pb2 module the compiler wrote in that run, and every
\* name in the index.js it wrote is exported by a *_pb.js module the compiler
\* wrote in that run.
C6_SymbolsFromThisRun ==
    pc = "exited" =>
        /\ Entered("InitA") =>
              \A k \in DOMAIN initFile.lines :
                 /\ ProducedPy(initFile.lines[k].module)
                 /\ initFile.lines[k].cls
                       \in protocPy[initFile.lines[k].module].msgs
        /\ IndexWritten =>
              \A x \in Range(indexFile.exports) :
                 \E f \in DOMAIN jsMods :
                    ProducedJs(f) /\ x \in Range(NamesOf(f))

\* The import lines of the modules generate_init got through before the
\* import that failed.
RECURSIVE LinesBefore(_)
LinesBefore(n) ==
    IF n = 0 THEN << >>
    ELSE LinesBefore(n - 1) \o import_lines(listing[n], pyMods[listing[n]])

\* C7: when generate_init has ended the run on a failed import, __init__.py
\* neither holds the import lines of just the modules handled before the
\* failing one, nor is an empty file where there were import lines before.
C7_NoPartialInit ==
    (pc = "exited" /\ failure = "generate_init")
        => /\ ~(/\ initFile.exists
                /\ LinesBefore(i - 1) # << >>
                /\ initFile.lines = LinesBefore(i - 1))
           /\ ~(initFile.lines = << >> /\ start.initFile.lines # << >>)

\* C8 as claimed: the export list of a written index.js holds each extracted
\* name once, in the order of first appearance across the modules taken in
\* filename order.
C8_FilenameOrder ==
    IndexWritten =>
        InFirstSeenOrder(indexFile.exports,
                         NamesAcross(sorted(DOMAIN jsMods)))

\* C8 as amended: the export list of a written index.js holds each extracted
\* name once, in the order of first appearance across the modules taken in
\* the order in which the directory enumerates them.
C8_EnumerationOrder ==
    IndexWritten =>
        InFirstSeenOrder(indexFile.exports,
                         NamesAcross(glob(dirOrder.js, DOMAIN jsMods)))

\* C8 happens: index.js was written from two modules, enumerated against
\* filename order, that share their names.
C8_Witness ==
    /\ IndexWritten
    /\ dirOrder.js = << 2, 1 >>
    /\ DOMAIN jsMods = Files
    /\ Len(NamesOf(1)) = 2
    /\ Len(NamesOf(2)) = 2
    /\ Len(indexFile.exports) = 2
    /\ indexFile.exports[1] > indexFile.exports[2]

\* C9 as claimed: a written index.js holds exactly one require statement for
\* each enumerated *_pb.js module, listing the module's names de-duplicated
\* and in alphabetical order.
C9_RequirePerModule ==
    IndexWritten => OneRequireEach(DOMAIN jsMods)

\* C9 as amended: a written index.js holds exactly one require statement for
\* each enumerated *_pb.js module in which some export line matched, and none
\* for the others; each lists its module's names de-duplicated and in
\* alphabetical order.
C9_RequirePerExportingModule ==
    IndexWritten =>
        OneRequireEach({ f \in DOMAIN jsMods : NamesOf(f) # << >> })

\* C9 happens: index.js was written from a module without export lines and
\* a module whose two names are out of alphabetical order.
C9_Witness ==
    /\ IndexWritten
    /\ DOMAIN jsMods = Files
    /\ NamesOf(1) = << >>
    /\ Len(NamesOf(2)) = 2
    /\ NamesOf(2)[1] > NamesOf(2)[2]
    /\ Len(indexFile.requires) = 1

\* C10: when a run follows another with the same schema files on disk, the
\* two end with status 0 or both with status 1, and if with 0, then
\* __init__.py and index.js are after the second what they were after the
\* first.
C10_Idempotent ==
    (pc = "exited" /\ prev.ran /\ prev.schemas = start.schemas)
        => /\ (exitStatus = 0) <=> (prev.exitStatus = 0)
           /\ exitStatus = 0 =>
                 /\ initFile = prev.initFile
                 /\ indexFile = prev.indexFile

\* C10 happens: a second run over the same schema files succeeded and wrote
\* both aggregators.
C10_Witness ==
    /\ pc = "exited"
    /\ prev.ran
    /\ prev.schemas = start.schemas
    /\ exitStatus = 0
    /\ Len(initFile.lines) > 1
    /\ Len(indexFile.exports) > 1

====
